---------------------------- MODULE Spec2Model ----------------------------
(***************************************************************************)
(* A model of the RESP 2.0 codec of src/src/lib.rs: parse (bytes -> value  *)
(* and bytes consumed) and dump (value -> bytes in a caller's buffer).     *)
(*                                                                         *)
(* Bytes are their numeric values.  Buffers and texts are sequences of     *)
(* bytes; the code's offsets are 0-based, so the byte at offset i of buf   *)
(* is buf[i + 1].  A Rust str is its UTF-8 bytes, so text is a byte        *)
(* sequence too.  An index or slice outside a buffer makes the Rust code   *)
(* panic; the model returns a result of kind "Panic" for it.               *)
(***************************************************************************)
EXTENDS Integers, Sequences, FiniteSets, TLC

VARIABLES
    buf,      \* the input buffer handed to parse
    pc,       \* position of the caller in the scenario
    res,      \* result of the last parse
    val,      \* the value handed to dump
    out,      \* the output buffer handed to dump, as dump left it
    dres,     \* result of the last dump
    writes,   \* the indices of the output buffer the last dump wrote
    msgs,     \* values still to be encoded onto the wire
    sent,     \* values encoded onto the wire and not yet decoded, with their lengths
    wire,     \* the bytes on the wire not yet consumed
    solo      \* parse of the head message's own bytes alone

vars == <<buf, pc, res, val, out, dres, writes, msgs, sent, wire, solo>>

(***************************************************************************)
(* Bytes                                                                   *)
(***************************************************************************)
SIMPLE_STRING_BYTE == 43   \* b'+'
ERROR_BYTE == 45           \* b'-'
INTEGER_BYTE == 58         \* b':'
BULK_STRING_BYTE == 36     \* b'$'
ARRAY_BYTE == 42           \* b'*'
CR == 13                   \* b'\r'
LF == 10                   \* b'\n'
ZERO == 48                 \* b'0'
PLUS == 43                 \* b'+', the sign i64's FromStr accepts
MINUS == 45                \* b'-', the sign of a negative decimal

CRLF == <<CR, LF>>

None == [kind |-> "None"]

\* &s[from..to] with 0-based from (inclusive) and to (exclusive)
Slice(s, from, to) == SubSeq(s, from + 1, to)

(***************************************************************************)
(* The value model, enum RESP                                              *)
(***************************************************************************)
SimpleString(s) == [t |-> "SimpleString", s |-> s]
Error(s) == [t |-> "Error", s |-> s]
Integer(i) == [t |-> "Integer", i |-> i]
BulkString(s) == [t |-> "BulkString", s |-> s]
NullBulkString == [t |-> "NullBulkString"]
Array(a) == [t |-> "Array", a |-> a]
NullArray == [t |-> "NullArray"]

(***************************************************************************)
(* The errors, enum ParseError and enum DumpError                          *)
(***************************************************************************)
UnknownByte(b) == [e |-> "UnknownByte", b |-> b]
CLRFNotFound == [e |-> "CLRFNotFound"]
Utf8Error(upto, elen) == [e |-> "Utf8Error", valid_up_to |-> upto, error_len |-> elen]
ParseIntError(k) == [e |-> "ParseIntError", k |-> k]
BufTooSmall == [e |-> "BufTooSmall"]

(***************************************************************************)
(* str::from_utf8 as the code uses it: the validation of the standard      *)
(* library, which reports where the first invalid sequence starts          *)
(* (valid_up_to) and how many bytes of it are certainly invalid            *)
(* (error_len; 0 stands for None, an unexpected end of the input).         *)
(***************************************************************************)
IsCont(b) == b >= 128 /\ b <= 191

utf8_char_width(b) ==
    IF b < 128 THEN 1
    ELSE IF b >= 194 /\ b <= 223 THEN 2
    ELSE IF b >= 224 /\ b <= 239 THEN 3
    ELSE IF b >= 240 /\ b <= 244 THEN 4
    ELSE 0

\* the second byte of a 3- or 4-byte sequence led by first
SecondOk(first, b) ==
    \/ first = 224 /\ b >= 160 /\ b <= 191
    \/ first >= 225 /\ first <= 236 /\ IsCont(b)
    \/ first = 237 /\ b >= 128 /\ b <= 159
    \/ first >= 238 /\ first <= 239 /\ IsCont(b)
    \/ first = 240 /\ b >= 144 /\ b <= 191
    \/ first >= 241 /\ first <= 243 /\ IsCont(b)
    \/ first = 244 /\ b >= 128 /\ b <= 143

RECURSIVE run_utf8_validation(_, _)
run_utf8_validation(v, index) ==
    IF index >= Len(v) THEN [ok |-> TRUE]
    ELSE
      LET first == v[index + 1]
          w == utf8_char_width(first)
          bad(n) == [ok |-> FALSE, err |-> Utf8Error(index, n)]
          has(k) == index + k < Len(v)
          at(k) == v[index + k + 1]
      IN  IF w = 1 THEN run_utf8_validation(v, index + 1)
          ELSE IF w = 0 THEN bad(1)
          ELSE IF ~has(1) THEN bad(0)
          ELSE IF w = 2 THEN
               IF IsCont(at(1)) THEN run_utf8_validation(v, index + 2) ELSE bad(1)
          ELSE IF ~SecondOk(first, at(1)) THEN bad(1)
          ELSE IF ~has(2) THEN bad(0)
          ELSE IF ~IsCont(at(2)) THEN bad(2)
          ELSE IF w = 3 THEN run_utf8_validation(v, index + 3)
          ELSE IF ~has(3) THEN bad(0)
          ELSE IF ~IsCont(at(3)) THEN bad(3)
          ELSE run_utf8_validation(v, index + 4)

from_utf8(v) == run_utf8_validation(v, 0)

(***************************************************************************)
(* line.parse::<i64>(): an optional sign, then one or more decimal digits. *)
(* The buffers of the model are too short to hold the 19 digits an i64     *)
(* overflow takes, so the PosOverflow and NegOverflow kinds cannot arise   *)
(* and are not modelled.                                                   *)
(***************************************************************************)
IsDigit(b) == b >= ZERO /\ b <= ZERO + 9

RECURSIVE digits_value(_, _)
digits_value(ds, acc) ==
    IF ds = <<>> THEN acc
    ELSE digits_value(Tail(ds), acc * 10 + (Head(ds) - ZERO))

parse_i64(line) ==
    IF line = <<>> THEN [ok |-> FALSE, err |-> ParseIntError("Empty")]
    ELSE IF Len(line) = 1 /\ line[1] \in {PLUS, MINUS}
         THEN [ok |-> FALSE, err |-> ParseIntError("InvalidDigit")]
    ELSE
      LET signed == line[1] \in {PLUS, MINUS}
          ds == IF signed THEN Tail(line) ELSE line
      IN  IF \E k \in 1..Len(ds) : ~IsDigit(ds[k])
          THEN [ok |-> FALSE, err |-> ParseIntError("InvalidDigit")]
          ELSE [ok |-> TRUE,
                v |-> IF line[1] = MINUS THEN 0 - digits_value(ds, 0)
                      ELSE digits_value(ds, 0)]

(***************************************************************************)
(* fn read_line                                                            *)
(***************************************************************************)
RECURSIVE read_line_loop(_, _, _)
read_line_loop(b, offset, current) ==
    IF current + 1 >= Len(b) THEN [kind |-> "Err", err |-> CLRFNotFound]
    ELSE IF offset + current >= Len(b) THEN [kind |-> "Panic"]
    ELSE IF b[offset + current + 1] # CR THEN read_line_loop(b, offset, current + 1)
    ELSE IF offset + current + 1 >= Len(b) THEN [kind |-> "Panic"]
    ELSE IF b[offset + current + 2] # LF THEN read_line_loop(b, offset, current + 1)
    ELSE
      LET u == from_utf8(Slice(b, offset, offset + current))
      IN  IF u.ok
          THEN [kind |-> "Ok", n |-> current + 2, line |-> Slice(b, offset, offset + current)]
          ELSE [kind |-> "Err", err |-> u.err]

\* a scanner that takes the last CR LF of the buffer for the terminator
read_line_last(b, offset) ==
    LET ends == {c \in 0..(Len(b) - offset - 2) :
                    b[offset + c + 1] = CR /\ b[offset + c + 2] = LF}
        last == CHOOSE c \in ends : \A d \in ends : d <= c
    IN  IF ends = {} THEN [kind |-> "Err", err |-> CLRFNotFound]
        ELSE IF from_utf8(Slice(b, offset, offset + last)).ok
        THEN [kind |-> "Ok", n |-> last + 2, line |-> Slice(b, offset, offset + last)]
        ELSE [kind |-> "Err", err |-> from_utf8(Slice(b, offset, offset + last)).err]

read_line(b, offset) == read_line_loop(b, offset, 0)

(***************************************************************************)
(* fn parse_offset.  The field calls is a ghost: the offsets at which      *)
(* parse_offset was entered, in the order of the calls.                    *)
(***************************************************************************)
Ok(n, resp, calls) == [kind |-> "Ok", n |-> n, resp |-> resp, calls |-> calls]
Err(err, calls) == [kind |-> "Err", err |-> err, calls |-> calls]
Panic(calls) == [kind |-> "Panic", calls |-> calls]

\* the ? operator on a failed read_line or a failed conversion
Bubble(r, calls) == IF r.kind = "Panic" THEN Panic(calls) ELSE Err(r.err, calls)

parse_simple_string_arm(b, offset) ==
    LET r == read_line(b, offset + 1)
    IN  IF r.kind # "Ok" THEN Bubble(r, <<offset>>)
        ELSE Ok(r.n + 1, SimpleString(r.line), <<offset>>)

parse_error_arm(b, offset) ==
    LET r == read_line(b, offset + 1)
    IN  IF r.kind # "Ok" THEN Bubble(r, <<offset>>)
        ELSE Ok(r.n + 1, Error(r.line), <<offset>>)

parse_integer_arm(b, offset) ==
    LET r == read_line(b, offset + 1)
    IN  IF r.kind # "Ok" THEN Bubble(r, <<offset>>)
        ELSE LET int == parse_i64(r.line)
             IN  IF ~int.ok THEN Err(int.err, <<offset>>)
                 ELSE Ok(r.n + 1, Integer(int.v), <<offset>>)

\* a bulk arm that leaves the trailing CR LF out of the consumed count
parse_bulk_arm_short(b, offset) ==
    LET r == read_line(b, offset + 1)
    IN  IF r.kind # "Ok" THEN Bubble(r, <<offset>>)
        ELSE LET len == parse_i64(r.line)
             IN  IF ~len.ok THEN Err(len.err, <<offset>>)
                 ELSE IF len.v < 0 THEN Ok(r.n + 1, NullBulkString, <<offset>>)
                 ELSE IF offset + r.n + 1 + len.v > Len(b) THEN Panic(<<offset>>)
                 ELSE LET bytes == Slice(b, offset + r.n + 1, offset + r.n + 1 + len.v)
                          s == from_utf8(bytes)
                      IN  IF ~s.ok THEN Err(s.err, <<offset>>)
                          ELSE Ok(r.n + 1 + len.v, BulkString(bytes), <<offset>>)

\* a bulk arm that takes only the length -1 for the null: any other negative
\* length becomes a huge usize and the payload slice is out of bounds
parse_bulk_arm_minus_one(b, offset) ==
    LET r == read_line(b, offset + 1)
    IN  IF r.kind # "Ok" THEN Bubble(r, <<offset>>)
        ELSE LET len == parse_i64(r.line)
             IN  IF ~len.ok THEN Err(len.err, <<offset>>)
                 ELSE IF len.v = 0 - 1 THEN Ok(r.n + 1, NullBulkString, <<offset>>)
                 ELSE IF len.v < 0 \/ offset + r.n + 1 + len.v > Len(b)
                      THEN Panic(<<offset>>)
                 ELSE LET bytes == Slice(b, offset + r.n + 1, offset + r.n + 1 + len.v)
                          s == from_utf8(bytes)
                      IN  IF ~s.ok THEN Err(s.err, <<offset>>)
                          ELSE Ok(r.n + 1 + len.v + 2, BulkString(bytes), <<offset>>)

parse_bulk_arm(b, offset) ==
    LET r == read_line(b, offset + 1)
    IN  IF r.kind # "Ok" THEN Bubble(r, <<offset>>)
        ELSE LET len == parse_i64(r.line)
             IN  IF ~len.ok THEN Err(len.err, <<offset>>)
                 ELSE IF len.v < 0 THEN Ok(r.n + 1, NullBulkString, <<offset>>)
                 ELSE IF offset + r.n + 1 + len.v > Len(b) THEN Panic(<<offset>>)
                 ELSE LET bytes == Slice(b, offset + r.n + 1, offset + r.n + 1 + len.v)
                          s == from_utf8(bytes)
                      IN  IF ~s.ok THEN Err(s.err, <<offset>>)
                          ELSE Ok(r.n + 1 + len.v + 2, BulkString(bytes), <<offset>>)

RECURSIVE parse_offset(_, _), parse_array_loop(_, _, _, _, _, _)

\* a loop that assigns the last child's count to m (m = l for m += l)
parse_array_loop_assign(b, base, k, m, arr, calls) ==
    IF k = 0 THEN [kind |-> "Ok", m |-> m, arr |-> arr, calls |-> calls]
    ELSE LET c == parse_offset(b, base + m)
         IN  IF c.kind = "Ok"
             THEN parse_array_loop(b, base, k - 1, c.n, Append(arr, c.resp),
                                   calls \o c.calls)
             ELSE [c EXCEPT !.calls = calls \o c.calls]

\* a loop that stops at a failing child and keeps the children before it
parse_array_loop_partial(b, base, k, m, arr, calls) ==
    IF k = 0 THEN [kind |-> "Ok", m |-> m, arr |-> arr, calls |-> calls]
    ELSE LET c == parse_offset(b, base + m)
         IN  IF c.kind = "Ok"
             THEN parse_array_loop(b, base, k - 1, m + c.n, Append(arr, c.resp),
                                   calls \o c.calls)
             ELSE IF c.kind = "Err"
             THEN [kind |-> "Ok", m |-> m, arr |-> arr, calls |-> calls \o c.calls]
             ELSE [c EXCEPT !.calls = calls \o c.calls]

\* the for loop of the array arm: k iterations left, m bytes of children
\* consumed, arr the children pushed so far
parse_array_loop(b, base, k, m, arr, calls) ==
    IF k = 0 THEN [kind |-> "Ok", m |-> m, arr |-> arr, calls |-> calls]
    ELSE LET c == parse_offset(b, base + m)
         IN  IF c.kind = "Ok"
             THEN parse_array_loop(b, base, k - 1, m + c.n, Append(arr, c.resp),
                                   calls \o c.calls)
             ELSE [c EXCEPT !.calls = calls \o c.calls]

parse_array_arm(b, offset) ==
    LET r == read_line(b, offset + 1)
    IN  IF r.kind # "Ok" THEN Bubble(r, <<offset>>)
        ELSE LET len == parse_i64(r.line)
             IN  IF ~len.ok THEN Err(len.err, <<offset>>)
                 ELSE IF len.v < 0 THEN Ok(r.n + 1, NullArray, <<offset>>)
                 ELSE LET l == parse_array_loop(b, offset + r.n + 1, len.v, 0, <<>>,
                                                <<offset>>)
                      IN  IF l.kind = "Ok" THEN Ok(r.n + 1 + l.m, Array(l.arr), l.calls)
                          ELSE l

parse_offset(b, offset) ==
    IF offset >= Len(b) THEN Panic(<<offset>>)
    ELSE LET tag == b[offset + 1]
         IN  CASE tag = SIMPLE_STRING_BYTE -> parse_simple_string_arm(b, offset)
               [] tag = ERROR_BYTE -> parse_error_arm(b, offset)
               [] tag = INTEGER_BYTE -> parse_integer_arm(b, offset)
               [] tag = BULK_STRING_BYTE -> parse_bulk_arm(b, offset)
               [] tag = ARRAY_BYTE -> parse_array_arm(b, offset)
               [] OTHER -> Err(UnknownByte(tag), <<offset>>)

parse(b) == parse_offset(b, 0)

(***************************************************************************)
(* fn write_bytes, fn write_line, fn dump_offset.  The state st threaded    *)
(* through the writes is the caller's buffer and a ghost, the set of       *)
(* indices written so far.                                                 *)
(***************************************************************************)
\* buf[offset..offset + bytes.len()].copy_from_slice(bytes); a byte whose
\* index is outside the buffer has no place in it
copy_from_slice(b, offset, bytes) ==
    LET keep == IF offset < Len(b) THEN offset ELSE Len(b)
        room == Len(b) - keep
        fit == IF Len(bytes) < room THEN Len(bytes) ELSE room
    IN  SubSeq(b, 1, keep) \o SubSeq(bytes, 1, fit) \o SubSeq(b, keep + fit + 1, Len(b))

Written(st, offset, bytes) ==
    [kind |-> "Ok", n |-> Len(bytes),
     buf |-> copy_from_slice(st.buf, offset, bytes),
     writes |-> st.writes \cup {offset + k : k \in 0..(Len(bytes) - 1)}]

TooSmall(st) == [kind |-> "Err", err |-> BufTooSmall, buf |-> st.buf, writes |-> st.writes]

\* a bounds check that is off by one
write_bytes_off_by_one(st, offset, bytes) ==
    IF offset + Len(bytes) > Len(st.buf) + 1 THEN TooSmall(st)
    ELSE Written(st, offset, bytes)

write_bytes(st, offset, bytes) ==
    IF offset + Len(bytes) > Len(st.buf) THEN TooSmall(st)
    ELSE Written(st, offset, bytes)

write_line(st, offset, kind, bytes) ==
    LET w1 == write_bytes(st, offset, <<kind>>)
    IN  IF w1.kind # "Ok" THEN w1
        ELSE LET w2 == write_bytes(w1, offset + w1.n, bytes)
             IN  IF w2.kind # "Ok" THEN w2
                 ELSE LET w3 == write_bytes(w2, offset + w1.n + w2.n, CRLF)
                      IN  IF w3.kind # "Ok" THEN w3
                          ELSE [w3 EXCEPT !.n = w1.n + w2.n + w3.n]

\* i.to_string() and len.to_string(): base-10 text, '-' first for a negative
RECURSIVE to_digits(_)
to_digits(n) ==
    IF n < 10 THEN <<ZERO + n>> ELSE Append(to_digits(n \div 10), ZERO + (n % 10))

to_string(i) == IF i < 0 THEN <<MINUS>> \o to_digits(0 - i) ELSE to_digits(i)

\* a bulk arm that writes the count of characters for the count of bytes
dump_bulk_arm_chars(s, st, offset) ==
    LET chars == Cardinality({k \in 1..Len(s) : ~IsCont(s[k])})
        w1 == write_line(st, offset, BULK_STRING_BYTE, to_string(chars))
    IN  IF w1.kind # "Ok" THEN w1
        ELSE LET w2 == write_bytes(w1, offset + w1.n, s)
             IN  IF w2.kind # "Ok" THEN w2
                 ELSE LET w3 == write_bytes(w2, offset + w1.n + w2.n, CRLF)
                      IN  IF w3.kind # "Ok" THEN w3
                          ELSE [w3 EXCEPT !.n = w1.n + w2.n + w3.n]

dump_bulk_arm(s, st, offset) ==
    LET w1 == write_line(st, offset, BULK_STRING_BYTE, to_string(Len(s)))
    IN  IF w1.kind # "Ok" THEN w1
        ELSE LET w2 == write_bytes(w1, offset + w1.n, s)
             IN  IF w2.kind # "Ok" THEN w2
                 ELSE LET w3 == write_bytes(w2, offset + w1.n + w2.n, CRLF)
                      IN  IF w3.kind # "Ok" THEN w3
                          ELSE [w3 EXCEPT !.n = w1.n + w2.n + w3.n]

RECURSIVE dump_offset(_, _, _), dump_array_loop(_, _, _, _)

\* the for loop of the array arm: rest the elements left, acc the state
\* after the elements before them, acc.n the bytes written so far
dump_array_loop(rest, acc, offset, n) ==
    IF rest = <<>> THEN [acc EXCEPT !.n = n]
    ELSE LET m == dump_offset(Head(rest), acc, offset + n)
         IN  IF m.kind # "Ok" THEN m
             ELSE dump_array_loop(Tail(rest), m, offset, n + m.n)

dump_array_arm(arr, st, offset) ==
    LET w == write_line(st, offset, ARRAY_BYTE, to_string(Len(arr)))
    IN  IF w.kind # "Ok" THEN w
        ELSE dump_array_loop(arr, w, offset, w.n)

dump_offset(resp, st, offset) ==
    CASE resp.t = "SimpleString" -> write_line(st, offset, SIMPLE_STRING_BYTE, resp.s)
      [] resp.t = "Error" -> write_line(st, offset, ERROR_BYTE, resp.s)
      [] resp.t = "Integer" -> write_line(st, offset, INTEGER_BYTE, to_string(resp.i))
      [] resp.t = "BulkString" -> dump_bulk_arm(resp.s, st, offset)
      [] resp.t = "NullBulkString" ->
            write_bytes(st, offset, <<BULK_STRING_BYTE, MINUS, ZERO + 1, CR, LF>>)
      [] resp.t = "Array" -> dump_array_arm(resp.a, st, offset)
      [] resp.t = "NullArray" ->
            write_bytes(st, offset, <<ARRAY_BYTE, MINUS, ZERO + 1, CR, LF>>)

dump(resp, b) == dump_offset(resp, [buf |-> b, writes |-> {}], 0)

\* vec![0; cap], the buffer a caller hands to dump
Zeroed(cap) == [i \in 1..cap |-> 0]

(***************************************************************************)
(* Bounds and inputs                                                       *)
(***************************************************************************)
MaxChunks == 3    \* an input buffer of parse is at most this many chunks
MaxNodes == 3     \* a value, or a list of values, has at most this many nodes
MaxCap == 25      \* an output buffer of dump is at most this long

EAcute == <<195, 169>>    \* U+00E9 in UTF-8: 0xC3, then the continuation byte 0xA9
LeadByte == EAcute[1]
ContByte == EAcute[2]
LetterA == 97             \* b'a'

Chunks ==
    {<<SIMPLE_STRING_BYTE>>, <<ERROR_BYTE>>, <<INTEGER_BYTE>>, <<BULK_STRING_BYTE>>,
     <<ARRAY_BYTE>>, <<CR>>, <<LF>>, <<ZERO>>, <<ZERO + 1>>, <<ZERO + 2>>,
     <<LetterA>>, <<LeadByte>>, <<ContByte>>,
     CRLF,
     <<ARRAY_BYTE, ZERO>> \o CRLF,
     <<ARRAY_BYTE, ZERO + 1>> \o CRLF,
     <<ARRAY_BYTE, ZERO + 2>> \o CRLF,
     <<BULK_STRING_BYTE, ZERO>> \o CRLF,
     <<BULK_STRING_BYTE, ZERO + 1>> \o CRLF,
     <<BULK_STRING_BYTE, ZERO + 2>> \o CRLF,
     <<MINUS, ZERO + 1>> \o CRLF,
     <<MINUS, ZERO + 2>> \o CRLF,
     <<SIMPLE_STRING_BYTE, LetterA>> \o CRLF,
     <<INTEGER_BYTE, ZERO + 1>> \o CRLF}

RECURSIVE Flatten(_)
Flatten(ss) == IF ss = <<>> THEN <<>> ELSE Head(ss) \o Flatten(Tail(ss))

\* the buffers made of at most n chunks
ParseInputs(n) ==
    {Flatten(cs) : cs \in UNION {[1..k -> Chunks] : k \in 0..n}}

Leaves ==
    {SimpleString(<<LetterA>>), Error(<<>>), Integer(0 - 12),
     BulkString(<<>>), BulkString(<<LeadByte, ContByte, CR, LF>>),
     NullBulkString, NullArray}

\* Gen(n).v[k] is the set of values of exactly k nodes (k in 1..n), and
\* Gen(n).l[k + 1] the set of lists of values of k nodes in all (k in 0..n)
RECURSIVE Gen(_)
Gen(n) ==
    IF n = 0 THEN [v |-> <<>>, l |-> <<{<<>>}>>]
    ELSE LET p == Gen(n - 1)
             vn == IF n = 1 THEN Leaves \cup {Array(<<>>)}
                   ELSE {Array(x) : x \in p.l[n]}
             vs == Append(p.v, vn)
             ln == UNION {{<<v>> \o x : v \in vs[k], x \in p.l[n - k + 1]} : k \in 1..n}
         IN  [v |-> vs, l |-> Append(p.l, ln)]

\* the values of at most n nodes, and the non-empty lists of values of at
\* most n nodes in all
Values(n) == UNION {Gen(n).v[k] : k \in 1..n}
MsgLists(n) == UNION {Gen(n).l[k + 1] : k \in 1..n}
Junk == {<<>>, <<LetterA>>, <<CR>>, CRLF, <<ARRAY_BYTE, ZERO + 2>> \o CRLF}

(***************************************************************************)
(* Scenario 1 (Spec): a caller hands parse one buffer.                     *)
(***************************************************************************)
Idle ==
    /\ val = None /\ out = <<>> /\ dres = None /\ writes = {}
    /\ msgs = <<>> /\ sent = <<>> /\ wire = <<>> /\ solo = None

Init ==
    /\ buf \in ParseInputs(MaxChunks)
    /\ pc = "start"
    /\ res = None
    /\ Idle

Parse ==
    /\ pc = "start"
    /\ res' = parse(buf)
    /\ pc' = "parsed"
    /\ UNCHANGED <<buf, val, out, dres, writes, msgs, sent, wire, solo>>

Next == Parse

Spec == Init /\ [][Next]_vars

(***************************************************************************)
(* Scenario 2 (SpecDump): the test's round trip.  A caller hands dump a    *)
(* value and a zeroed buffer, then parses the bytes dump reported written. *)
(***************************************************************************)
InitDump ==
    /\ val \in Values(MaxNodes)
    /\ out \in {Zeroed(cap) : cap \in 0..MaxCap}
    /\ pc = "start"
    /\ buf = <<>> /\ res = None /\ dres = None /\ writes = {}
    /\ msgs = <<>> /\ sent = <<>> /\ wire = <<>> /\ solo = None

Dump ==
    /\ pc = "start"
    /\ LET r == dump(val, out)
       IN  /\ out' = r.buf
           /\ writes' = r.writes
           /\ dres' = IF r.kind = "Ok" THEN [kind |-> "Ok", n |-> r.n]
                      ELSE [kind |-> "Err", err |-> r.err]
    /\ pc' = "dumped"
    /\ UNCHANGED <<buf, res, val, msgs, sent, wire, solo>>

ParseBack ==
    /\ pc = "dumped"
    /\ dres.kind = "Ok"
    /\ buf' = Slice(out, 0, dres.n)
    /\ res' = parse(buf')
    /\ pc' = "parsed"
    /\ UNCHANGED <<val, out, dres, writes, msgs, sent, wire, solo>>

NextDump == Dump \/ ParseBack

SpecDump == InitDump /\ [][NextDump]_vars

(***************************************************************************)
(* Scenario 3 (SpecStream): messages back to back in one buffer.  A        *)
(* producer encodes values one after the other onto the wire, and may end  *)
(* the wire with bytes that belong to no message; a consumer parses at the *)
(* front of the wire and advances by the count parse returned.             *)
(***************************************************************************)
InitStream ==
    /\ msgs \in MsgLists(MaxNodes)
    /\ sent = <<>> /\ wire = <<>>
    /\ pc = "open"
    /\ buf = <<>> /\ res = None /\ solo = None
    /\ val = None /\ out = <<>> /\ dres = None /\ writes = {}

Send ==
    /\ pc \in {"open", "received"}
    /\ msgs # <<>>
    /\ LET r == dump(Head(msgs), Zeroed(MaxCap))
       IN  IF r.kind = "Ok"
           THEN /\ wire' = wire \o Slice(r.buf, 0, r.n)
                /\ sent' = Append(sent, [v |-> Head(msgs), n |-> r.n])
           ELSE UNCHANGED <<wire, sent>>   \* nothing is sent of a value that did not fit
    /\ msgs' = Tail(msgs)
    /\ UNCHANGED <<buf, pc, res, val, out, dres, writes, solo>>

SendJunk ==
    /\ pc \in {"open", "received"}
    /\ msgs = <<>>
    /\ \E t \in Junk \ {<<>>} : wire' = wire \o t
    /\ pc' = IF pc = "open" THEN "closed" ELSE "closed_received"
    /\ UNCHANGED <<buf, res, val, out, dres, writes, msgs, sent, solo>>

Recv ==
    /\ sent # <<>>
    /\ buf' = wire
    /\ res' = parse(wire)
    /\ solo' = parse(Slice(wire, 0, Head(sent).n))
    /\ val' = Head(sent).v
    /\ dres' = [kind |-> "Ok", n |-> Head(sent).n]
    /\ wire' = IF res'.kind = "Ok" THEN Slice(wire, res'.n, Len(wire)) ELSE wire
    /\ sent' = Tail(sent)
    /\ pc' = IF pc \in {"closed", "closed_received"} THEN "closed_received" ELSE "received"
    /\ UNCHANGED <<out, writes, msgs>>

NextStream == Send \/ SendJunk \/ Recv

SpecStream == InitStream /\ [][NextStream]_vars

(***************************************************************************)
(* The claims.  What a claim calls the canonical encoding is Encoding,     *)
(* written from the wire format's grammar and not from dump.               *)
(***************************************************************************)
RECURSIVE Decimal(_)
Decimal(n) == IF n < 10 THEN <<ZERO + n>> ELSE Decimal(n \div 10) \o <<ZERO + (n % 10)>>

SignedDecimal(i) == IF i < 0 THEN <<MINUS>> \o Decimal(0 - i) ELSE Decimal(i)

RECURSIVE Encoding(_), EncodingAll(_)
Encoding(v) ==
    CASE v.t = "SimpleString" -> <<SIMPLE_STRING_BYTE>> \o v.s \o CRLF
      [] v.t = "Error" -> <<ERROR_BYTE>> \o v.s \o CRLF
      [] v.t = "Integer" -> <<INTEGER_BYTE>> \o SignedDecimal(v.i) \o CRLF
      [] v.t = "BulkString" ->
            <<BULK_STRING_BYTE>> \o Decimal(Len(v.s)) \o CRLF \o v.s \o CRLF
      [] v.t = "NullBulkString" -> <<BULK_STRING_BYTE, MINUS, ZERO + 1, CR, LF>>
      [] v.t = "Array" ->
            <<ARRAY_BYTE>> \o Decimal(Len(v.a)) \o CRLF \o EncodingAll(v.a)
      [] v.t = "NullArray" -> <<ARRAY_BYTE, MINUS, ZERO + 1, CR, LF>>
EncodingAll(vs) == IF vs = <<>> THEN <<>> ELSE Encoding(Head(vs)) \o EncodingAll(Tail(vs))

NoLineBreak(s) == \A k \in 1..Len(s) : s[k] # CR /\ s[k] # LF

RECURSIVE ValidValue(_)
ValidValue(v) ==
    CASE v.t \in {"SimpleString", "Error"} -> NoLineBreak(v.s)
      [] v.t = "Array" -> \A k \in 1..Len(v.a) : ValidValue(v.a[k])
      [] OTHER -> TRUE

Range(s) == {s[k] : k \in 1..Len(s)}

\* no CR LF pair starts at an offset >= o of b
NoCRLFFrom(b, o) == \A i \in o..(Len(b) - 2) : ~(b[i + 1] = CR /\ b[i + 2] = LF)

LineTags == {SIMPLE_STRING_BYTE, ERROR_BYTE, INTEGER_BYTE, BULK_STRING_BYTE, ARRAY_BYTE}

\* the offsets of the buffer at which the parse of this state entered a
\* value whose tag is one of tags
Entered(tags) == {o \in Range(res.calls) : o < Len(buf) /\ buf[o + 1] \in tags}

\* the length line of the '$' or '*' value at offset o was read and gives a number
HasLength(o) ==
    /\ read_line(buf, o + 1).kind = "Ok"
    /\ parse_i64(read_line(buf, o + 1).line).ok
LineBytes(o) == read_line(buf, o + 1).n
Length(o) == parse_i64(read_line(buf, o + 1).line).v

\* C1: for every valid value and every buffer at least as long as its
\* encoding, dump returns Ok(written), and parse of the first written bytes
\* returns Ok((written, v)): the same value, consuming exactly written bytes.
C1_RoundTrip ==
    (pc \in {"dumped", "parsed"} /\ ValidValue(val) /\ Len(out) >= Len(Encoding(val)))
        => /\ dres.kind = "Ok"
           /\ pc = "parsed" =>
                /\ buf = Slice(out, 0, dres.n)
                /\ res.kind = "Ok"
                /\ res.n = dres.n
                /\ res.resp = val

C1_Witness ==
    /\ pc = "parsed"
    /\ val = Array(<<Array(<<BulkString(<<LeadByte, ContByte, CR, LF>>)>>)>>)
    /\ res.kind = "Ok"
    /\ res.n = Len(buf)

\* C2: parse is total: for every buffer it returns Ok or one of UnknownByte,
\* CRLFNotFound, Utf8Error, ParseIntError, and never ends any other way (no
\* read outside the buffer, no out-of-bounds abort).
C2_ParseTotal ==
    pc = "parsed" =>
        \/ res.kind = "Ok"
        \/ /\ res.kind = "Err"
           /\ res.err.e \in {"UnknownByte", "CLRFNotFound", "Utf8Error", "ParseIntError"}

\* C3: dump returns BufferTooSmall exactly when the buffer is shorter than
\* the value's canonical encoding and Ok otherwise, and every byte it writes,
\* in a successful or a failing call, is at an index < len(buf).
C3_BufTooSmall ==
    pc \in {"dumped", "parsed"} =>
        /\ dres.kind = "Err" <=> Len(out) < Len(Encoding(val))
        /\ dres.kind = "Err" => dres.err = BufTooSmall
        /\ dres.kind \in {"Ok", "Err"}
        /\ \A i \in writes : i >= 0 /\ i < Len(out)

C3_Witness ==
    /\ pc = "dumped"
    /\ dres.kind = "Err"
    /\ val.t = "Array"
    /\ Len(val.a) = 2
    /\ (Len(out) - 1) \in writes

\* C4: on success dump writes, from index 0 of the buffer, exactly the
\* canonical encoding of the value (tag, text or decimal, CRLF; a bulk
\* string's decimal byte length; an array's decimal count followed by its
\* elements' encodings back to back; the 5-byte nulls) and returns its length.
C4_Canonical ==
    (pc \in {"dumped", "parsed"} /\ dres.kind = "Ok") =>
        /\ dres.n = Len(Encoding(val))
        /\ Slice(out, 0, dres.n) = Encoding(val)
        /\ writes = 0..(dres.n - 1)
        /\ \A i \in (dres.n + 1)..Len(out) : out[i] = 0

C4_Witness ==
    /\ pc = "dumped"
    /\ dres.kind = "Ok"
    /\ val = Array(<<BulkString(<<LeadByte, ContByte, CR, LF>>), Integer(0 - 12)>>)
    /\ dres.n < Len(out)

\* C5: whenever no CR LF pair occurs at or after the offset the line scanner
\* is called with, the scanner fails with CRLFNotFound without reading at or
\* beyond len(buf), and parse of that buffer returns CRLFNotFound.
C5_MissingTerminator ==
    pc = "parsed" =>
        \A o \in Entered(LineTags) :
            NoCRLFFrom(buf, o + 1) =>
                /\ read_line(buf, o + 1) = [kind |-> "Err", err |-> CLRFNotFound]
                /\ res.kind = "Err" /\ res.err = CLRFNotFound

\* C6: parse reads only the single top-level value: with any bytes after a
\* valid encoding e of v, parse returns Ok((len(e), v)), as for e alone; so
\* re-invoking parse at the position advanced by the consumed count yields
\* back-to-back values in order and ends exactly at the end of the buffer.
C6_SingleValue ==
    /\ pc \in {"received", "closed_received"} =>
          /\ res = solo
          /\ res.kind = "Ok"
          /\ res.n = dres.n
          /\ res.resp = val
    /\ (pc \in {"open", "received"} /\ sent = <<>>) => wire = <<>>

C6_Witness ==
    /\ pc = "closed_received"
    /\ val.t = "Array" /\ Len(val.a) = 1
    /\ Len(sent) = 1
    /\ Len(wire) > sent[1].n
    /\ Len(buf) > res.n

\* C7: a '$' value of length len >= 0 parses only if the buffer holds the len
\* payload bytes and two more bytes after them; then the payload is those
\* len bytes and consumed = 1 + lineBytes + len + 2, never more than
\* len(buf); a buffer that ends earlier is an error, not a BulkString.
C7_BulkFraming ==
    pc = "parsed" =>
        \A o \in Entered({BULK_STRING_BYTE}) :
            (HasLength(o) /\ Length(o) >= 0) =>
                LET r == parse_offset(buf, o)
                    need == o + 1 + LineBytes(o) + Length(o) + 2
                IN  /\ r.kind \in {"Ok", "Err"}
                    /\ r.kind = "Ok" =>
                          /\ need <= Len(buf)
                          /\ r.n = 1 + LineBytes(o) + Length(o) + 2
                          /\ r.resp = BulkString(Slice(buf, o + 1 + LineBytes(o),
                                                       o + 1 + LineBytes(o) + Length(o)))
                    /\ need > Len(buf) => r.kind = "Err"
                    /\ o = 0 => (res = r /\ (res.kind = "Ok" => res.n <= Len(buf)))

\* the children of an array, parsed back to back from pos, are elems: the
\* offset at which the last one ends, or -1 when they are not
RECURSIVE ChainEnd(_, _, _)
ChainEnd(b, pos, elems) ==
    IF elems = <<>> THEN pos
    ELSE LET c == parse_offset(b, pos)
         IN  IF c.kind = "Ok" /\ c.resp = Head(elems)
             THEN ChainEnd(b, pos + c.n, Tail(elems))
             ELSE 0 - 1

\* C8: whenever parse returns an Array for a '*' value of length len >= 0, it
\* holds exactly len elements, element i parsed from the bytes that start
\* where element i-1 ended (element 0 right after the length line), and
\* consumed = 1 + lineBytes + the children's consumed counts, at every depth.
C8_ArrayStructure ==
    (pc = "parsed" /\ res.kind = "Ok") =>
        \A o \in Entered({ARRAY_BYTE}) :
            LET r == parse_offset(buf, o)
            IN  /\ o = 0 => r = res
                /\ r.kind = "Ok"
                /\ HasLength(o)
                /\ Length(o) >= 0 =>
                      /\ r.resp.t = "Array"
                      /\ Len(r.resp.a) = Length(o)
                      /\ ChainEnd(buf, o + 1 + LineBytes(o), r.resp.a) = o + r.n

C8_Witness ==
    /\ pc = "parsed"
    /\ res.kind = "Ok"
    /\ res.resp.t = "Array"
    /\ Len(res.resp.a) = 2
    /\ res.resp.a[2].t = "Array"
    /\ Len(res.calls) = 3

\* the leftmost failing child among the k children parsed back to back from
\* pos: its result, or None when none of them fails
RECURSIVE FirstFailure(_, _, _)
FirstFailure(b, pos, k) ==
    IF k = 0 THEN None
    ELSE LET c == parse_offset(b, pos)
         IN  IF c.kind = "Ok" THEN FirstFailure(b, pos + c.n, k - 1) ELSE c

EndsWith(s, t) == Len(t) <= Len(s) /\ SubSeq(s, Len(s) - Len(t) + 1, Len(s)) = t

\* C9: the children of an array are parsed left to right; when child i is the
\* leftmost that fails, the array parse and every enclosing one fail with
\* exactly child i's error, return no partial Array, and examine no child to
\* the right of i.
C9_ArrayErrors ==
    pc = "parsed" =>
        \A o \in Entered({ARRAY_BYTE}) :
            (HasLength(o) /\ Length(o) >= 0) =>
                LET f == FirstFailure(buf, o + 1 + LineBytes(o), Length(o))
                    r == parse_offset(buf, o)
                IN  f.kind = "Err" =>
                      /\ r = Err(f.err, r.calls)
                      /\ EndsWith(r.calls, f.calls)
                      /\ res = Err(f.err, res.calls)
                      /\ EndsWith(res.calls, f.calls)

C9_Witness ==
    /\ pc = "parsed"
    /\ res.kind = "Err"
    /\ res.err = UnknownByte(LetterA)
    /\ Len(res.calls) = 2
    /\ res.calls[2] + 1 < Len(buf)
    /\ buf[1] = ARRAY_BYTE /\ buf[2] = ZERO + 2

\* C10: for a '$' or '*' value every negative length yields the null variant
\* with consumed = 1 + lineBytes and nothing read after the length line,
\* whatever follows; length 0 yields BulkString("") with consumed
\* 1 + lineBytes + 2, or Array([]) with consumed 1 + lineBytes, which are not
\* the null variants.
C10_NullVersusEmpty ==
    pc = "parsed" =>
        \A o \in Entered({BULK_STRING_BYTE, ARRAY_BYTE}) :
            (HasLength(o) /\ Length(o) <= 0) =>
                LET r == parse_offset(buf, o)
                    bulk == buf[o + 1] = BULK_STRING_BYTE
                IN  /\ o = 0 => r = res
                    /\ Length(o) < 0 =>
                          r = Ok(1 + LineBytes(o),
                                 IF bulk THEN NullBulkString ELSE NullArray, <<o>>)
                    /\ Length(o) = 0 =>
                          /\ r = Ok(1 + LineBytes(o) + (IF bulk THEN 2 ELSE 0),
                                    IF bulk THEN BulkString(<<>>) ELSE Array(<<>>), <<o>>)
                          /\ r.resp # NullBulkString /\ r.resp # NullArray

C10_Witness ==
    /\ pc = "parsed"
    /\ res = Ok(5, NullBulkString, <<0>>)
    /\ buf[3] = ZERO + 2
    /\ Len(buf) > 5

=============================================================================
